---- MODULE Spec2Model ----
(***************************************************************************)
(* A model of the parser-combinator core of src/src/main.rs.               *)
(*                                                                         *)
(* A &str is a sequence of bytes holding valid UTF-8; a char is a Unicode  *)
(* scalar value (a number).  A ParserOutput is Ok((rest, value)),          *)
(* Err(input), or the panic Rust raises when a string is sliced inside a   *)
(* character.  Parsers are values built by the combinators; parse runs     *)
(* them.  The state machine evaluates one parser on one input, one call or *)
(* return at a time, and keeps the history of calls and returns.           *)
(***************************************************************************)
EXTENDS Integers, Sequences, FiniteSets, TLC

(***************************************************************************)
(* Bounds of the model.                                                    *)
(***************************************************************************)
\* Longest generated input, in characters.
MaxChars == 3

\* Longest generated literal of match_literal, in characters.
MaxLiteralChars == 2

\* The characters inputs are generated from: 'a' (alphabetic), '1' (numeric),
\* '-', '<' (neither), U+00E9 (alphabetic, 2 bytes), U+1F60E (neither, 4 bytes).
Alphabet == {97, 49, 45, 60, 233, 128526}

(***************************************************************************)
(* UTF-8 strings: what str and char of the standard library do.            *)
(***************************************************************************)
len_utf8(c) ==
    IF c < 128 THEN 1 ELSE IF c < 2048 THEN 2 ELSE IF c < 65536 THEN 3 ELSE 4

encode_utf8(c) ==
    CASE len_utf8(c) = 1 -> <<c>>
      [] len_utf8(c) = 2 -> <<192 + (c \div 64), 128 + (c % 64)>>
      [] len_utf8(c) = 3 ->
            <<224 + (c \div 4096), 128 + ((c \div 64) % 64), 128 + (c % 64)>>
      [] OTHER ->
            <<240 + (c \div 262144), 128 + ((c \div 4096) % 64),
              128 + ((c \div 64) % 64), 128 + (c % 64)>>

\* The width of the character a leading byte starts.
utf8_char_width(b) ==
    IF b < 128 THEN 1 ELSE IF b < 224 THEN 2 ELSE IF b < 240 THEN 3 ELSE 4

\* The character whose encoding starts at byte offset i (0-based) of s.
decode_at(s, i) ==
    LET b == s[i + 1]
        w == utf8_char_width(b)
        cont(k) == s[i + 1 + k] % 64
    IN  CASE w = 1 -> b
          [] w = 2 -> (b % 32) * 64 + cont(1)
          [] w = 3 -> (b % 16) * 4096 + cont(1) * 64 + cont(2)
          [] OTHER -> (b % 8) * 262144 + cont(1) * 4096 + cont(2) * 64 + cont(3)

\* str::is_char_boundary: the ends of the string, and every byte that is not
\* a continuation byte (10xxxxxx).
is_char_boundary(s, i) ==
    \/ i = 0
    \/ i = Len(s)
    \/ /\ i > 0
       /\ i < Len(s)
       /\ ~(s[i + 1] >= 128 /\ s[i + 1] < 192)

\* str::chars: the characters of s from byte offset i on, in order.
RECURSIVE chars_from(_, _)
chars_from(s, i) ==
    IF i >= Len(s) THEN <<>>
    ELSE <<decode_at(s, i)>> \o chars_from(s, i + utf8_char_width(s[i + 1]))

chars(s) == chars_from(s, 0)

\* String::push applied to each character in turn.
RECURSIVE string_of(_)
string_of(cs) ==
    IF cs = <<>> THEN <<>> ELSE encode_utf8(Head(cs)) \o string_of(Tail(cs))

\* str::get(lo..hi): the sub-slice, or None when the range is out of bounds
\* or does not lie on character boundaries.
str_get(s, lo, hi) ==
    IF lo <= hi /\ hi <= Len(s) /\ is_char_boundary(s, lo) /\ is_char_boundary(s, hi)
    THEN [some |-> TRUE, slice |-> SubSeq(s, lo + 1, hi)]
    ELSE [some |-> FALSE]

\* char::is_alphabetic, char::is_numeric and char::is_alphanumeric on the
\* characters below U+0100; the other characters of Alphabet have neither
\* property.
is_alphabetic(c) ==
    c \in (65..90) \cup (97..122) \cup {170, 181, 186}
          \cup (192..214) \cup (216..246) \cup (248..255)

is_numeric(c) == c \in (48..57) \cup {178, 179, 185, 188, 189, 190}

is_alphanumeric(c) == is_alphabetic(c) \/ is_numeric(c)

(***************************************************************************)
(* ParserOutput and the parsed values.                                     *)
(***************************************************************************)
Ok(rest, value) == [ok |-> TRUE, rest |-> rest, value |-> value]

Err(input) == [ok |-> FALSE, err |-> input]

\* The panic of slicing a str off a character boundary.
Panic == [panic |-> TRUE]

\* No result yet.
NoRes == [none |-> TRUE]

IsOk(r) == "ok" \in DOMAIN r /\ r.ok

IsErr(r) == "ok" \in DOMAIN r /\ ~r.ok

CharV(c) == [char |-> c]

UnitV == [unit |-> TRUE]

StringV(s) == [str |-> s]

TupleV(a, b) == [fst |-> a, snd |-> b]

\* Ok((&input[n..], value)): the slice panics off a character boundary.
OkFrom(input, n, value) ==
    IF n <= Len(input) /\ is_char_boundary(input, n)
    THEN Ok(SubSeq(input, n + 1, Len(input)), value)
    ELSE Panic

(***************************************************************************)
(* The primitive parsers.                                                  *)
(***************************************************************************)
\* take_first_char advancing one byte whatever the character's width.
take_first_char_one_byte(input) ==
    LET first_char == chars(input)
    IN  IF first_char # <<>>
        THEN OkFrom(input, 1, CharV(Head(first_char)))
        ELSE Err(input)

take_first_char(input) ==
    LET first_char == chars(input)
    IN  IF first_char # <<>>
        THEN OkFrom(input, len_utf8(Head(first_char)), CharV(Head(first_char)))
        ELSE Err(input)

\* match_literal without the guard next == expected.
match_literal_parse_unguarded(expected, input) ==
    LET expected_input_slice == str_get(input, 0, Len(expected))
    IN  IF expected_input_slice.some
        THEN OkFrom(input, Len(expected), UnitV)
        ELSE Err(input)

match_literal_parse(expected, input) ==
    LET expected_input_slice == str_get(input, 0, Len(expected))
    IN  IF expected_input_slice.some /\ expected_input_slice.slice = expected
        THEN OkFrom(input, Len(expected), UnitV)
        ELSE Err(input)

\* The while loop of identifier: the characters pushed onto matched.
RECURSIVE identifier_loop(_, _)
identifier_loop(cs, matched) ==
    IF cs # <<>> /\ (is_alphanumeric(Head(cs)) \/ Head(cs) = 45)
    THEN identifier_loop(Tail(cs), matched \o encode_utf8(Head(cs)))
    ELSE matched

\* identifier taking next_index as the number of characters of matched.
identifier_char_count(input) ==
    LET cs == chars(input)
    IN  IF cs # <<>> /\ is_alphabetic(Head(cs))
        THEN LET matched == identifier_loop(Tail(cs), encode_utf8(Head(cs)))
                 next_index == Len(chars(matched))
             IN  OkFrom(input, next_index, StringV(matched))
        ELSE Err(input)

\* identifier without the match on the first character, as the
\* commented-out identifier_with_rule scans.
identifier_no_first_check(input) ==
    LET matched == identifier_loop(chars(input), <<>>)
        next_index == Len(matched)
    IN  OkFrom(input, next_index, StringV(matched))

identifier(input) ==
    LET cs == chars(input)
    IN  IF cs # <<>> /\ is_alphabetic(Head(cs))
        THEN LET matched == identifier_loop(Tail(cs), encode_utf8(Head(cs)))
                 next_index == Len(matched)
             IN  OkFrom(input, next_index, StringV(matched))
        ELSE Err(input)

(***************************************************************************)
(* Parsers as values.  A primitive function is a parser by the blanket     *)
(* impl of Parser for Fn(&str) -> ParserOutput; a combinator returns the   *)
(* closure that captured its arguments.                                    *)
(***************************************************************************)
TakeFirstChar == [kind |-> "take_first_char"]

Identifier == [kind |-> "identifier"]

match_literal(expected) == [kind |-> "match_literal", expected |-> expected]

pair(parser1, parser2) ==
    [kind |-> "pair", parser1 |-> parser1, parser2 |-> parser2]

map(parser, map_fn) == [kind |-> "map", parser |-> parser, map_fn |-> map_fn]

identity_combinator(parser) == [kind |-> "identity", parser |-> parser]

\* The functions handed to map: |input| input, |(left, _right)| left, a
\* function that returns (), one that pairs its argument with itself, and
\* the composition of two of them.
FnId == [fn |-> "id"]

FnFst == [fn |-> "fst"]

FnUnit == [fn |-> "unit"]

FnDup == [fn |-> "dup"]

compose(g, f) == [fn |-> "compose", outer |-> g, inner |-> f]

RECURSIVE apply_fn(_, _)
apply_fn(f, v) ==
    CASE f.fn = "id" -> v
      [] f.fn = "fst" -> v.fst
      [] f.fn = "unit" -> UnitV
      [] f.fn = "dup" -> TupleV(v, v)
      [] f.fn = "compose" -> apply_fn(f.outer, apply_fn(f.inner, v))

\* left keeping the second parser's place and value.
left_swapped(parser1, parser2) == map(pair(parser2, parser1), FnFst)

left(parser1, parser2) == map(pair(parser1, parser2), FnFst)

(***************************************************************************)
(* The types the compiler checks: a parser's Output, and a function's      *)
(* result type for an argument type.  Only well-typed parsers exist.       *)
(***************************************************************************)
TChar == <<"char">>

TUnit == <<"unit">>

TString == <<"string">>

TTuple(a, b) == <<"tuple", a, b>>

TIll == <<"ill">>

RECURSIVE fn_type(_, _)
fn_type(f, t) ==
    IF t = TIll THEN TIll
    ELSE CASE f.fn = "id" -> t
           [] f.fn = "fst" -> IF t[1] = "tuple" THEN t[2] ELSE TIll
           [] f.fn = "unit" -> TUnit
           [] f.fn = "dup" -> TTuple(t, t)
           [] f.fn = "compose" -> fn_type(f.outer, fn_type(f.inner, t))

RECURSIVE output_type(_)
output_type(p) ==
    CASE p.kind = "take_first_char" -> TChar
      [] p.kind = "match_literal" -> TUnit
      [] p.kind = "identifier" -> TString
      [] p.kind = "pair" ->
            LET t1 == output_type(p.parser1)
                t2 == output_type(p.parser2)
            IN  IF t1 = TIll \/ t2 = TIll THEN TIll ELSE TTuple(t1, t2)
      [] p.kind = "map" -> fn_type(p.map_fn, output_type(p.parser))
      [] p.kind = "identity" -> output_type(p.parser)

well_typed(p) == output_type(p) # TIll

(***************************************************************************)
(* The closures the combinators return, as functions of the results of     *)
(* the parsers they captured.                                              *)
(***************************************************************************)
\* pair building the tuple (result2, result1).
pair_second_swapped(r1, r2) ==
    IF IsOk(r2) THEN Ok(r2.rest, TupleV(r2.value, r1.value)) ELSE r2

\* pair, the inner match: parser2 has returned r2 after parser1's r1.
pair_second(r1, r2) ==
    IF IsOk(r2) THEN Ok(r2.rest, TupleV(r1.value, r2.value)) ELSE r2

\* map returning the parsed value without applying map_fn.
map_result_unapplied(r, map_fn) == r

\* map: Result::map over the wrapped parser's result.
map_result(r, map_fn) ==
    IF IsOk(r) THEN Ok(r.rest, apply_fn(map_fn, r.value)) ELSE r

\* Parser::parse: the result of running parser p on input.
RECURSIVE parse(_, _)
parse(p, input) ==
    CASE p.kind = "take_first_char" -> take_first_char(input)
      [] p.kind = "match_literal" -> match_literal_parse(p.expected, input)
      [] p.kind = "identifier" -> identifier(input)
      [] p.kind = "pair" ->
            LET r1 == parse(p.parser1, input)
            IN  IF IsOk(r1) THEN pair_second(r1, parse(p.parser2, r1.rest))
                ELSE r1
      [] p.kind = "map" -> map_result(parse(p.parser, input), p.map_fn)
      [] p.kind = "identity" -> parse(p.parser, input)

(***************************************************************************)
(* The parsers and inputs of the model.                                    *)
(***************************************************************************)
CharSeqs(n) == UNION {[1..k -> Alphabet] : k \in 0..n}

\* The inputs of the tests, of main and of the experiments:
\* "<name>", "foo", "!not-identifier", "is-identifier", "name-" and U+1F60E,
\* "hello", "<hello/>", "<id-1", "+hello/>", "<!hello/>", "name" and U+2206.
ExampleInputs ==
    { <<60, 110, 97, 109, 101, 62>>,
      <<102, 111, 111>>,
      <<33, 110, 111, 116, 45, 105, 100, 101, 110, 116, 105, 102, 105, 101, 114>>,
      <<105, 115, 45, 105, 100, 101, 110, 116, 105, 102, 105, 101, 114>>,
      <<110, 97, 109, 101, 45, 240, 159, 152, 142>>,
      <<104, 101, 108, 108, 111>>,
      <<60, 104, 101, 108, 108, 111, 47, 62>>,
      <<60, 105, 100, 45, 49>>,
      <<43, 104, 101, 108, 108, 111, 47, 62>>,
      <<60, 33, 104, 101, 108, 108, 111, 47, 62>>,
      <<110, 97, 109, 101, 226, 136, 134>> }

\* Inputs that start with a 3-byte character: U+2206 alone and before 'a'.
WideInputs == {<<226, 136, 134>>, <<226, 136, 134, 97>>}

Inputs ==
    {string_of(cs) : cs \in CharSeqs(MaxChars)} \cup ExampleInputs \cup WideInputs

Literals == {string_of(cs) : cs \in CharSeqs(MaxLiteralChars)}

Primitives ==
    {TakeFirstChar, Identifier} \cup {match_literal(l) : l \in Literals}

\* The parsers handed to the combinators: the primitives of the tests, and
\* the combined parsers of main and of the tests.
Leaves ==
    {TakeFirstChar, Identifier, match_literal(<<>>), match_literal(<<60>>)}

SubParsers ==
    Leaves \cup { pair(match_literal(<<60>>), Identifier),
                  left(TakeFirstChar, TakeFirstChar) }

MapFns == {FnId, FnFst, FnUnit, FnDup}

Parsers ==
    Primitives
    \cup {pair(p1, p2) : p1 \in SubParsers, p2 \in SubParsers}
    \cup {left(p1, p2) : p1 \in SubParsers, p2 \in SubParsers}
    \cup {q \in {map(p, f) : p \in SubParsers, f \in MapFns} : well_typed(q)}
    \cup {identity_combinator(p) : p \in SubParsers}
    \cup {q \in {map(map(p, f), g) : p \in Leaves, f \in MapFns, g \in MapFns} :
             well_typed(q)}

(***************************************************************************)
(* The state: the parser under evaluation and its input, the stack of      *)
(* parse calls in progress, the result the last call returned, and the     *)
(* history of calls and returns.  A call is named by its path: <<>> is the *)
(* outermost call, path \o <<1>> and path \o <<2>> the calls it makes of   *)
(* its first and second parser.                                            *)
(***************************************************************************)
VARIABLES parser, input, stack, ret, calls, returns

vars == <<parser, input, stack, ret, calls, returns>>

Frame(p, in, path) ==
    [p |-> p, input |-> in, path |-> path, stage |-> 0, saved |-> NoRes]

CallRec(p, in, path) == [path |-> path, p |-> p, input |-> in]

Init ==
    /\ parser \in Parsers
    /\ input \in Inputs
    /\ stack = <<Frame(parser, input, <<>>)>>
    /\ ret = NoRes
    /\ calls = <<CallRec(parser, input, <<>>)>>
    /\ returns = <<>>

Top == stack[Len(stack)]

Rest == SubSeq(stack, 1, Len(stack) - 1)

Running(kind, stage) ==
    /\ stack # <<>>
    /\ Top.p.kind = kind
    /\ Top.stage = stage

\* The call on top of the stack returns res to its caller; a panic unwinds
\* the whole stack instead.
Return(res) ==
    /\ ret' = res
    /\ stack' = IF res = Panic THEN <<>> ELSE Rest
    /\ returns' = Append(returns, [path |-> Top.path, res |-> res])
    /\ UNCHANGED <<parser, input, calls>>

\* The call on top of the stack calls child number k, p, on in, keeping
\* saved for its return.
Call(p, in, k, saved) ==
    /\ stack' = Append(Rest, [Top EXCEPT !.stage = k, !.saved = saved])
                    \o <<Frame(p, in, Top.path \o <<k>>)>>
    /\ ret' = NoRes
    /\ calls' = Append(calls, CallRec(p, in, Top.path \o <<k>>))
    /\ UNCHANGED <<parser, input, returns>>

TakeFirstCharStep ==
    /\ Running("take_first_char", 0)
    /\ Return(take_first_char(Top.input))

MatchLiteralStep ==
    /\ Running("match_literal", 0)
    /\ Return(match_literal_parse(Top.p.expected, Top.input))

IdentifierStep ==
    /\ Running("identifier", 0)
    /\ Return(identifier(Top.input))

\* pair: match parser1.parse(input) ...
PairCallParser1 ==
    /\ Running("pair", 0)
    /\ Call(Top.p.parser1, Top.input, 1, NoRes)

\* pair going on to parser2 after parser1 failed.
PairParser1ErrContinues ==
    /\ Running("pair", 1)
    /\ IsErr(ret)
    /\ Call(Top.p.parser2, ret.err, 2, ret)

\* pair: Err(err) => Err(err) of the outer match.
PairParser1Err ==
    /\ Running("pair", 1)
    /\ IsErr(ret)
    /\ Return(ret)

\* pair running parser2 on input instead of next_input.
PairCallParser2OnInput ==
    /\ Running("pair", 1)
    /\ IsOk(ret)
    /\ Call(Top.p.parser2, Top.input, 2, ret)

\* pair: Ok((next_input, result1)) => match parser2.parse(next_input) ...
PairCallParser2 ==
    /\ Running("pair", 1)
    /\ IsOk(ret)
    /\ Call(Top.p.parser2, ret.rest, 2, ret)

\* pair rolling back to its own input when parser2 fails.
PairReturnRollback ==
    /\ Running("pair", 2)
    /\ Return(IF IsErr(ret) THEN Err(Top.input) ELSE pair_second(Top.saved, ret))

\* pair: the two arms of the inner match.
PairReturn ==
    /\ Running("pair", 2)
    /\ Return(pair_second(Top.saved, ret))

MapCallParser ==
    /\ Running("map", 0)
    /\ Call(Top.p.parser, Top.input, 1, NoRes)

MapReturn ==
    /\ Running("map", 1)
    /\ Return(map_result(ret, Top.p.map_fn))

IdentityCallParser ==
    /\ Running("identity", 0)
    /\ Call(Top.p.parser, Top.input, 1, NoRes)

IdentityReturn ==
    /\ Running("identity", 1)
    /\ Return(ret)

Next ==
    \/ TakeFirstCharStep
    \/ MatchLiteralStep
    \/ IdentifierStep
    \/ PairCallParser1
    \/ PairParser1Err
    \/ PairCallParser2
    \/ PairReturn
    \/ MapCallParser
    \/ MapReturn
    \/ IdentityCallParser
    \/ IdentityReturn

Spec == Init /\ [][Next]_vars

Done == stack = <<>>

\* The step-by-step evaluation returns what parse computes.
StepsAgreeWithParse == Done => ret = parse(parser, input)

(***************************************************************************)
(* The history: which calls were made, and what they returned.             *)
(***************************************************************************)
CallSet == {calls[i] : i \in DOMAIN calls}

ReturnSet == {returns[i] : i \in DOMAIN returns}

Called(path) == \E c \in CallSet : c.path = path

CallAt(path) == CHOOSE c \in CallSet : c.path = path

Returned(path) == \E r \in ReturnSet : r.path = path

ResultAt(path) == (CHOOSE r \in ReturnSet : r.path = path).res

\* The returned calls of the parsers of one kind.
ReturnedCalls(kind) ==
    {c \in CallSet : c.p.kind = kind /\ Returned(c.path)}

IsPrefix(l, s) == Len(l) <= Len(s) /\ SubSeq(s, 1, Len(l)) = l

IsSuffix(r, s) ==
    Len(r) <= Len(s) /\ SubSeq(s, Len(s) - Len(r) + 1, Len(s)) = r

IsPathPrefix(a, b) == Len(a) <= Len(b) /\ SubSeq(b, 1, Len(a)) = a

DropFirst(s, n) == SubSeq(s, n + 1, Len(s))

(***************************************************************************)
(* The primitive parsers.                                                  *)
(***************************************************************************)
\* C1: every call match_literal(L)(S), the empty L included, returns
\* Ok((S without its first len(L) bytes, ())) if S starts with L byte for
\* byte, and Err(S) otherwise (a mismatch, or S shorter than L).
C1_MatchLiteralIffPrefix ==
    \A c \in ReturnedCalls("match_literal") :
        LET L == c.p.expected
            S == c.input
            r == ResultAt(c.path)
        IN  IF IsPrefix(L, S)
            THEN r = Ok(DropFirst(S, Len(L)), UnitV)
            ELSE r = Err(S)

\* match_literal("<") has parsed "<name>".
C1_Witness ==
    /\ Done
    /\ parser = match_literal(<<60>>)
    /\ input = <<60, 110, 97, 109, 101, 62>>
    /\ ret = Ok(<<110, 97, 109, 101, 62>>, UnitV)

IdentifierChar(c) == is_alphanumeric(c) \/ c = 45

\* C2: every call identifier(S) returns Err(S) iff S is empty or its first
\* character is not alphabetic; otherwise it returns Ok with a non-empty
\* string that starts with an alphabetic character, goes on with
\* alphanumeric characters and '-', is followed in S by the remainder
\* (value + remainder = S, the cut on a character boundary) and is maximal:
\* the remainder is empty or starts with another character.
C2_IdentifierMaximalPrefix ==
    \A c \in ReturnedCalls("identifier") :
        LET S == c.input
            r == ResultAt(c.path)
        IN  IF S = <<>> \/ ~is_alphabetic(Head(chars(S)))
            THEN r = Err(S)
            ELSE /\ IsOk(r)
                 /\ DOMAIN r.value = {"str"}
                 /\ r.value.str # <<>>
                 /\ r.value.str \o r.rest = S
                 /\ is_char_boundary(S, Len(r.value.str))
                 /\ is_alphabetic(Head(chars(r.value.str)))
                 /\ \A i \in DOMAIN chars(r.value.str) :
                        i > 1 => IdentifierChar(chars(r.value.str)[i])
                 /\ r.rest # <<>> => ~IdentifierChar(Head(chars(r.rest)))

\* identifier has parsed "name-" followed by U+1F60E.
C2_Witness ==
    /\ Done
    /\ parser = Identifier
    /\ input = <<110, 97, 109, 101, 45, 240, 159, 152, 142>>
    /\ ret = Ok(<<240, 159, 152, 142>>, StringV(<<110, 97, 109, 101, 45>>))

\* C7: every call take_first_char(S) returns Err(S) iff S is empty;
\* otherwise it returns Ok with the first character of S and the remainder
\* that follows the 1 to 4 bytes of that character, on a character
\* boundary of S.
C7_TakeFirstCharWholeChar ==
    \A c \in ReturnedCalls("take_first_char") :
        LET S == c.input
            r == ResultAt(c.path)
        IN  IF S = <<>>
            THEN r = Err(S)
            ELSE /\ IsOk(r)
                 /\ DOMAIN r.value = {"char"}
                 /\ r.value.char = Head(chars(S))
                 /\ encode_utf8(r.value.char) \o r.rest = S
                 /\ Len(S) - Len(r.rest) \in 1..4
                 /\ is_char_boundary(S, Len(S) - Len(r.rest))

\* take_first_char has parsed U+1F60E followed by 'a'.
C7_Witness ==
    /\ Done
    /\ parser = TakeFirstChar
    /\ input = <<240, 159, 152, 142, 97>>
    /\ ret = Ok(<<97>>, CharV(128526))

IsPrimitive(p) == p.kind \in {"take_first_char", "match_literal", "identifier"}

ReturnedPrimitiveCalls == {c \in CallSet : IsPrimitive(c.p) /\ Returned(c.path)}

\* C10 as claimed: every successful call of a primitive parser, of
\* match_literal(L) for any L included, leaves a remainder strictly shorter
\* than its input.
C10_EveryPrimitiveConsumes ==
    \A c \in ReturnedPrimitiveCalls :
        IsOk(ResultAt(c.path)) => Len(ResultAt(c.path).rest) < Len(c.input)

\* C10, amended: every successful call of take_first_char, of identifier
\* and of match_literal(L) with a non-empty L leaves a remainder strictly
\* shorter than its input; match_literal("") succeeds with the whole input
\* as remainder.
C10_NonEmptyPrimitiveConsumes ==
    \A c \in ReturnedPrimitiveCalls :
        LET r == ResultAt(c.path)
        IN  IF c.p = match_literal(<<>>)
            THEN r = Ok(c.input, UnitV)
            ELSE IsOk(r) => Len(r.rest) < Len(c.input)

\* pair(match_literal(""), identifier) has parsed "foo": the empty literal
\* consumed nothing, identifier consumed the three characters.
C10_Witness ==
    /\ Done
    /\ parser = pair(match_literal(<<>>), Identifier)
    /\ input = <<102, 111, 111>>
    /\ ResultAt(<<1>>) = Ok(<<102, 111, 111>>, UnitV)
    /\ ResultAt(<<2>>) = Ok(<<>>, StringV(<<102, 111, 111>>))

(***************************************************************************)
(* The combinators.                                                        *)
(***************************************************************************)
First(path) == path \o <<1>>

Second(path) == path \o <<2>>

\* The number of calls made with a path.
TimesCalled(path) == Cardinality({i \in DOMAIN calls : calls[i].path = path})

\* C3: in every state of every evaluation, a call of pair(p1, p2) whose p1
\* has failed has not called p2, and if it has returned, it has returned
\* the very failure of p1.
C3_PairShortCircuits ==
    \A c \in CallSet :
        (/\ c.p.kind = "pair"
         /\ Returned(First(c.path))
         /\ ~IsOk(ResultAt(First(c.path))))
        => /\ IsErr(ResultAt(First(c.path)))
           /\ ~Called(Second(c.path))
           /\ Returned(c.path) => ResultAt(c.path) = ResultAt(First(c.path))

\* pair(match_literal("<"), identifier) has failed on "+hello/>" without
\* calling identifier.
C3_Witness ==
    /\ Done
    /\ parser = pair(match_literal(<<60>>), Identifier)
    /\ input = <<43, 104, 101, 108, 108, 111, 47, 62>>
    /\ ResultAt(<<1>>) = Err(input)
    /\ ~Called(<<2>>)
    /\ ret = Err(input)

\* C4: a call of pair(p1, p2) whose p1 has succeeded with remainder R and
\* value v1 calls p2 at most once, on R, and exactly once before it
\* returns; it returns p2's failure as it is, or Ok with p2's remainder and
\* the tuple (v1, v2).  pair(match_literal("<"), identifier) fails on
\* "<!hello/>" with "!hello/>".
C4_PairRunsSecondOnRemainder ==
    /\ \A c \in CallSet :
        (/\ c.p.kind = "pair"
         /\ Returned(First(c.path))
         /\ IsOk(ResultAt(First(c.path))))
        => LET r1 == ResultAt(First(c.path))
           IN  /\ TimesCalled(Second(c.path)) <= 1
               /\ Called(Second(c.path)) =>
                    /\ CallAt(Second(c.path)).p = c.p.parser2
                    /\ CallAt(Second(c.path)).input = r1.rest
               /\ Returned(c.path) =>
                    /\ TimesCalled(Second(c.path)) = 1
                    /\ Returned(Second(c.path))
                    /\ LET r2 == ResultAt(Second(c.path))
                       IN  ResultAt(c.path) =
                              IF IsOk(r2)
                              THEN Ok(r2.rest, TupleV(r1.value, r2.value))
                              ELSE r2
                    /\ ResultAt(c.path) # Panic
    /\ (/\ Done
        /\ parser = pair(match_literal(<<60>>), Identifier)
        /\ input = <<60, 33, 104, 101, 108, 108, 111, 47, 62>>)
       => ret = Err(<<33, 104, 101, 108, 108, 111, 47, 62>>)

\* pair(match_literal("<"), identifier) has failed on "<!hello/>" after
\* match_literal("<") succeeded.
C4_Witness ==
    /\ Done
    /\ parser = pair(match_literal(<<60>>), Identifier)
    /\ input = <<60, 33, 104, 101, 108, 108, 111, 47, 62>>
    /\ IsOk(ResultAt(<<1>>))
    /\ ResultAt(<<2>>) = Err(<<33, 104, 101, 108, 108, 111, 47, 62>>)
    /\ ret = Err(<<33, 104, 101, 108, 108, 111, 47, 62>>)

\* C5: a call map(p, f)(S) that has returned fails iff its call p(S)
\* failed, with the same failure; on success it has p's remainder and f of
\* p's value.  map(p, identity)(S) is p(S), and map(map(p, f), g)(S) is
\* map(p, g after f)(S).
C5_MapIsFunctorial ==
    \A c \in ReturnedCalls("map") :
        LET r == ResultAt(c.path)
            inner == CallAt(First(c.path))
            ri == ResultAt(First(c.path))
        IN  /\ inner.p = c.p.parser
            /\ inner.input = c.input
            /\ IsErr(r) <=> IsErr(ri)
            /\ IsErr(r) => r = ri
            /\ IsOk(r) <=> IsOk(ri)
            /\ IsOk(r) =>
                 /\ r.rest = ri.rest
                 /\ r.value = apply_fn(c.p.map_fn, ri.value)
            /\ c.p.map_fn = FnId => r = parse(c.p.parser, c.input)
            /\ c.p.parser.kind = "map" =>
                 r = parse(map(c.p.parser.parser,
                               compose(c.p.map_fn, c.p.parser.map_fn)),
                           c.input)

\* map(map(take_first_char, v -> (v, v)), (l, r) -> l) has parsed "hello".
C5_Witness ==
    /\ Done
    /\ parser = map(map(TakeFirstChar, FnDup), FnFst)
    /\ input = <<104, 101, 108, 108, 111>>
    /\ ResultAt(<<1>>) = Ok(<<101, 108, 108, 111>>, TupleV(CharV(104), CharV(104)))
    /\ ret = Ok(<<101, 108, 108, 111>>, CharV(104))

\* C6: left(p1, p2)(S) runs pair(p1, p2) on S and succeeds iff that call
\* succeeds, with its remainder and p1's value only; it fails with the
\* failure of that call.  left(take_first_char, take_first_char) on
\* "hello" gives remainder "llo" and value 'h'.
C6_LeftIsPairFirst ==
    /\ \A p1 \in SubParsers, p2 \in SubParsers :
        (Done /\ parser = left(p1, p2)) =>
            /\ Called(<<1>>) /\ Returned(<<1>>)
            /\ CallAt(<<1>>).p = pair(p1, p2)
            /\ CallAt(<<1>>).input = input
            /\ IsOk(ret) <=> IsOk(ResultAt(<<1>>))
            /\ IsErr(ret) <=> IsErr(ResultAt(<<1>>))
            /\ IsOk(ret) =>
                 /\ ret.rest = ResultAt(<<1>>).rest
                 /\ ret.rest = ResultAt(<<1, 2>>).rest
                 /\ ret.value = ResultAt(<<1, 1>>).value
                 /\ CallAt(<<1, 1>>).p = p1
            /\ IsErr(ret) => ret = ResultAt(<<1>>)
    /\ (/\ Done
        /\ parser = left(TakeFirstChar, TakeFirstChar)
        /\ input = <<104, 101, 108, 108, 111>>)
       => ret = Ok(<<108, 108, 111>>, CharV(104))

\* left(match_literal("<"), identifier) has parsed "<hello/>".
C6_Witness ==
    /\ Done
    /\ parser = left(match_literal(<<60>>), Identifier)
    /\ input = <<60, 104, 101, 108, 108, 111, 47, 62>>
    /\ ResultAt(<<1>>) =
          Ok(<<47, 62>>, TupleV(UnitV, StringV(<<104, 101, 108, 108, 111>>)))
    /\ ret = Ok(<<47, 62>>, UnitV)

ReturnedCombinatorCalls ==
    {c \in CallSet : ~IsPrimitive(c.p) /\ Returned(c.path)}

\* The calls made under a call, itself included.
CallsUnder(c) == {d \in CallSet : IsPathPrefix(c.path, d.path)}

CallIndex(c) == CHOOSE i \in DOMAIN calls : calls[i] = c

\* The first primitive parser called under a call.
FirstPrimitiveUnder(c) ==
    CHOOSE d \in CallsUnder(c) :
        /\ IsPrimitive(d.p)
        /\ \A e \in CallsUnder(c) :
              IsPrimitive(e.p) => CallIndex(d) <= CallIndex(e)

\* C8 as claimed: a parser composed with pair, map or left that fails
\* returns the input it was called on.
C8_FailureReturnsOriginalInput ==
    \A c \in ReturnedCombinatorCalls :
        IsErr(ResultAt(c.path)) => ResultAt(c.path) = Err(c.input)

\* C8, amended: a parser composed with pair, map or left that fails on S
\* returns the input of the primitive parser that failed under it, which
\* is a suffix of S: S itself when that primitive is the first one called,
\* and otherwise what the parsers that succeeded before it left.
C8_FailureReturnsFailingInput ==
    \A c \in ReturnedCombinatorCalls :
        LET r == ResultAt(c.path)
        IN  /\ r # Panic
            /\ IsErr(r) =>
                 /\ IsSuffix(r.err, c.input)
                 /\ \E d \in CallsUnder(c) :
                        /\ IsPrimitive(d.p)
                        /\ d.input = r.err
                        /\ Returned(d.path)
                        /\ ResultAt(d.path) = Err(d.input)
                        /\ \A e \in CallsUnder(c) :
                              CallIndex(e) <= CallIndex(d)
                        /\ d = FirstPrimitiveUnder(c) => r.err = c.input

\* left(match_literal("<"), identifier) has failed on "<!hello/>" with
\* "!hello/>".
C8_Witness ==
    /\ Done
    /\ parser = left(match_literal(<<60>>), Identifier)
    /\ input = <<60, 33, 104, 101, 108, 108, 111, 47, 62>>
    /\ CallAt(<<1, 2>>).input = <<33, 104, 101, 108, 108, 111, 47, 62>>
    /\ ret = Err(<<33, 104, 101, 108, 108, 111, 47, 62>>)

\* C9: every call that has succeeded, of a primitive, of pair, map, left
\* or the identity wrapper, has returned a suffix of its input; in a pair
\* the remainder of the second parser is a suffix of the remainder of the
\* first, so the consumed length does not decrease, and it is the
\* remainder of the pair.
C9_RemainderIsSuffix ==
    /\ \A c \in CallSet :
        (Returned(c.path) /\ IsOk(ResultAt(c.path))) =>
            IsSuffix(ResultAt(c.path).rest, c.input)
    /\ \A c \in CallSet :
        (/\ c.p.kind = "pair"
         /\ Returned(First(c.path))
         /\ Returned(Second(c.path))
         /\ IsOk(ResultAt(Second(c.path))))
        => LET R1 == ResultAt(First(c.path)).rest
               R2 == ResultAt(Second(c.path)).rest
           IN  /\ IsSuffix(R1, c.input)
               /\ IsSuffix(R2, R1)
               /\ Len(c.input) - Len(R1) <= Len(c.input) - Len(R2)
               /\ Returned(c.path) => ResultAt(c.path).rest = R2

\* The identity wrapper of pair(match_literal("<"), identifier) has
\* parsed "<hello/>".
C9_Witness ==
    /\ Done
    /\ parser = identity_combinator(pair(match_literal(<<60>>), Identifier))
    /\ input = <<60, 104, 101, 108, 108, 111, 47, 62>>
    /\ ResultAt(<<1, 1>>).rest = <<104, 101, 108, 108, 111, 47, 62>>
    /\ ResultAt(<<1, 2>>).rest = <<47, 62>>
    /\ ret = Ok(<<47, 62>>, TupleV(UnitV, StringV(<<104, 101, 108, 108, 111>>)))

====
